---------------------------- MODULE Spec2Model ----------------------------
(***************************************************************************)
(* A model of three pieces of scikit-multiflow:                            *)
(*   - SEAGenerator            (data/generators/sea_generator.py)          *)
(*   - demo()                  (demos/_test_oza_bagging_adwin.py)          *)
(*   - EvaluateStreamGenerationSpeed (evaluation/evaluate_stream_gen_speed)*)
(*                                                                         *)
(* Numbers.  numpy's rand() returns a float in [0, 1); here it returns a   *)
(* number r in 0..19 standing for r/20.  An attribute 10*rand() is then    *)
(* r/2, kept in half units (0..19), so the thresholds 8, 9, 7 and 9.5 are  *)
(* 16, 18, 14 and 19.  noise_percentage is kept in hundredths, so          *)
(* 0.01 + rand() <= noise_percentage reads 1 + 5*r <= noise_percentage.    *)
(* Time is counted in clock ticks.  The cache behind get_last_instance()    *)
(* (current_instance_x, current_instance_y) and the log lines are left     *)
(* out: no operation modelled here reads them.                             *)
(***************************************************************************)
EXTENDS Integers, Sequences, FiniteSets, TLC

\* ------------------------------------------------------------------ bounds
MaxBatch == 2          \* largest batch_size passed to next_instance
MaxProduced == 3       \* samples recorded between two restarts/drifts
MaxSamples == 3        \* largest max_samples of demo()
MaxTrain == 2          \* largest train_size of demo()
MaxNumSamples == 4     \* largest num_samples of the speed evaluator
MaxTimeBudget == 2     \* largest finite max_time, in ticks
MaxTick == 2           \* largest advance of the clock between two reads
MaxRemaining == 3      \* largest finite estimated_remaining_instances()
MaxPercentageIndex == 41   \* cap of true_percentage_index
MaxWindow == 3         \* largest max_window_size of the learner
MaxInserts == 6        \* largest number of fit_one calls

Gens == {1, 2}         \* identities of SEAGenerator objects
Seeds == {42, 112}     \* instance_seed values (the default, the docstring's)
NoiseValues == {0, 28, 670}    \* 0.0, 0.28 (docstring), 6.7 (demo)
FunctionArgs == -1..4  \* classification_function arguments, valid or not

ElapsedCap == MaxTimeBudget + 1
\* cap of the count of next_instance calls kept for a stream: one more than
\* any run with batch_size >= 1 makes
MaxCalls == MaxNumSamples + 1
\* float("inf"): larger than every finite quantity it is compared with
inf == ElapsedCap + MaxNumSamples + MaxRemaining + MaxBatch + 1

VARIABLES
    scenario,      \* which program runs: "sea" (one generator), "sea2" (two
                   \* generators in one process), "demo", "speed" or "knn"
    pc,            \* position of the running function
    np_random,     \* state of numpy's process-wide generator np.random
    sea,           \* sea[g]: the fields of SEAGenerator object g
    obs,           \* obs[g]: what the callers of g have observed
    \* locals of demo()
    max_samples, train_size, first, sample_count, correctly_classified,
    Xy, my_pred, calls, performance,
    \* EvaluateStreamGenerationSpeed and the locals of _measure_stream_speed
    ev, stream, stream_local_max, true_percentage_index, elapsed, generated,
    logged,        \* the percentages written by logging.info at line 82
    \* a windowed nearest-neighbour learner
    knn,           \* its max_window_size and its buffer, oldest entry first
    inserted       \* how many instances fit_one was given so far

seaVars == << np_random, sea, obs >>
demoVars == << max_samples, train_size, first, correctly_classified,
               Xy, my_pred, calls, performance >>
speedVars == << ev, stream, stream_local_max, true_percentage_index,
                elapsed, generated, logged >>
knnVars == << knn, inserted >>
vars == << scenario, pc, seaVars, demoVars, sample_count, speedVars, knnVars >>

\* ------------------------------------------------------- numpy's generator
\* np.random.seed(seed)
RandomSeed(seed) == seed % 40

\* One step of the generator: the state after a draw.
RandomStep(s) == (21 * s + 7) % 40

\* np.random.rand(): the drawn value (in twentieths) and the state after it.
Rand(s) == [value |-> RandomStep(s) \div 2, state |-> RandomStep(s)]

\* np.random.randint(4): the drawn value and the state after it.
RandInt4(s) == [value |-> RandomStep(s) \div 10, state |-> RandomStep(s)]

\* ------------------------------------------------ classification functions
classification_function_zero(att1, att2, att3) ==
    IF att1 + att2 <= 16 THEN 0 ELSE 1

classification_function_one(att1, att2, att3) ==
    IF att1 + att2 <= 18 THEN 0 ELSE 1

classification_function_two(att1, att2, att3) ==
    IF att1 + att2 <= 14 THEN 0 ELSE 1

\* classification_function_three reading the third attribute
classification_function_three_att3(att1, att2, att3) ==
    IF att1 + att3 <= 19 THEN 0 ELSE 1

classification_function_three(att1, att2, att3) ==
    IF att1 + att2 <= 19 THEN 0 ELSE 1

\* Python's list indexing on the 4-element list classification_functions:
\* a negative index counts from the end, an index outside -4..3 raises.
IndexInRange(i) == i >= -4 /\ i <= 3

ListIndex(i) == IF i < 0 THEN i + 4 ELSE i

\* self.classification_functions[index](att1, att2, att3)
Classify(index, att1, att2, att3) ==
    CASE ListIndex(index) = 0 -> classification_function_zero(att1, att2, att3)
      [] ListIndex(index) = 1 -> classification_function_one(att1, att2, att3)
      [] ListIndex(index) = 2 -> classification_function_two(att1, att2, att3)
      [] OTHER -> classification_function_three(att1, att2, att3)

\* The test of line 177: is `group` the class the balancing asks for?
DesiredClass(next_class_should_be_zero, group) ==
    (next_class_should_be_zero /\ group = 0)
        \/ (~next_class_should_be_zero /\ group = 1)

\* Lines 169-171: the three draws of one pass of the while loop.
ThreeDraws(rng) ==
    << Rand(rng), Rand(Rand(rng).state), Rand(Rand(Rand(rng).state).state) >>

\* Lines 169-172: the attributes drawn and the group the selected function
\* gives them, with the generator state after the draws.
Candidate(d, ncz, index) ==
    [att1 |-> d[1].value, att2 |-> d[2].value, att3 |-> d[3].value,
     group |-> Classify(index, d[1].value, d[2].value, d[3].value),
     rng |-> d[3].state, ncz |-> ncz]

\* The while loop of lines 168-179: draw three attributes and classify them
\* until the desired class is found.  Yields the attributes, the group, and
\* the generator state and balancing flag after the loop.
RECURSIVE FindDesired(_, _, _, _)
\* Lines 174-179: keep the candidate, or go round the loop again.
DesiredOrAgain(c, index, balance) ==
    IF ~balance THEN c
    ELSE IF DesiredClass(c.ncz, c.group) THEN [c EXCEPT !.ncz = ~c.ncz]
    ELSE FindDesired(c.rng, c.ncz, index, balance)

FindDesired(rng, ncz, index, balance) ==
    DesiredOrAgain(Candidate(ThreeDraws(rng), ncz, index), index, balance)

\* Line 181: does the noise switch the label, given the drawn probability p?
NoiseSwitches(p, noise_percentage) == 1 + 5 * p <= noise_percentage

\* Lines 181-187: the sample stored for the candidate d, p being the draw of
\* line 181.  The sample keeps, next to the four numbers the code stores in
\* `data`, what the iteration went through: the function index used, the
\* group before the noise, and the drawn probability.
Stored(d, p, index, noise_percentage) ==
    [sample |-> [att1 |-> d.att1, att2 |-> d.att2, att3 |-> d.att3,
                 label |-> IF NoiseSwitches(p.value, noise_percentage)
                           THEN (IF d.group = 0 THEN 1 ELSE 0)
                           ELSE d.group,
                 fn |-> index, chosen |-> d.group, p |-> p.value],
     rng |-> p.state, ncz |-> d.ncz]

\* Lines 181-187 for the candidate d the while loop ended with.
Noised(d, index, noise_percentage) ==
    Stored(d, Rand(d.rng), index, noise_percentage)

\* One iteration of the for loop of lines 164-190.
NextSample(rng, ncz, index, balance, noise_percentage) ==
    Noised(FindDesired(rng, ncz, index, balance), index, noise_percentage)

\* The for loop of lines 164-190 over batch_size samples.
RECURSIVE GenerateBatch(_, _, _, _, _, _)
\* A batch: its first sample, then the samples of the rest.
BatchOf(sample, rest) ==
    [samples |-> << sample >> \o rest.samples,
     rng |-> rest.rng, ncz |-> rest.ncz]

\* The iterations that follow the iteration that gave s.
ThenRest(s, n, index, balance, noise_percentage) ==
    BatchOf(s.sample, GenerateBatch(n - 1, s.rng, s.ncz, index, balance, noise_percentage))

GenerateBatch(n, rng, ncz, index, balance, noise_percentage) ==
    IF n = 0 THEN [samples |-> << >>, rng |-> rng, ncz |-> ncz]
    ELSE ThenRest(NextSample(rng, ncz, index, balance, noise_percentage),
                  n, index, balance, noise_percentage)

\* The while loop of generate_drift (lines 350-352): draw until the function
\* differs from the current one.
RECURSIVE DrawNewFunction(_, _)
\* Lines 351-352: keep the drawn function r, or draw again.
NewOrAgain(r, index) ==
    IF r.value = index THEN DrawNewFunction(r.state, index)
    ELSE [value |-> r.value, state |-> r.state]

DrawNewFunction(rng, index) == NewOrAgain(RandInt4(rng), index)

\* --------------------------------------------------- SEAGenerator objects
NoGenerator ==
    [constructed |-> FALSE, classification_function_index |-> 0,
     instance_seed |-> 0, balance_classes |-> FALSE, noise_percentage |-> 0,
     next_class_should_be_zero |-> FALSE]

NoObservation ==
    [ctor_function |-> 0, since |-> "none", produced |-> << >>,
     error |-> "none"]

\* SEAGenerator.__init__ and __configure (lines 88-127): nothing is checked.
Configured(classification_function, instance_seed, balance_classes, noise_percentage) ==
    [constructed |-> TRUE,
     classification_function_index |-> classification_function,
     instance_seed |-> instance_seed,
     balance_classes |-> balance_classes,
     noise_percentage |-> noise_percentage,
     next_class_should_be_zero |-> FALSE]

\* restart() leaving next_class_should_be_zero as it is
RestartedKeepsFlag(g) == sea[g]

\* The generator after restart() (lines 200-202).
Restarted(g) == [sea[g] EXCEPT !.next_class_should_be_zero = FALSE]

\* The effect of g.next_instance(batch_size) on the generator, on numpy's
\* state and on what the caller sees.  An index outside the list raises
\* IndexError at line 172, after the three attributes were drawn.
NextInstanceBatch(g, batch_size) ==
    GenerateBatch(batch_size, np_random, sea[g].next_class_should_be_zero,
                  sea[g].classification_function_index,
                  sea[g].balance_classes, sea[g].noise_percentage)

\* What a returned batch b leaves behind.
BatchEffect(g, b) ==
    /\ np_random' = b.rng
    /\ sea' = [sea EXCEPT ![g].next_class_should_be_zero = b.ncz]
    /\ obs' = [obs EXCEPT ![g].produced = obs[g].produced \o b.samples]

NextInstanceEffect(g, batch_size) ==
    IF IndexInRange(sea[g].classification_function_index)
    THEN BatchEffect(g, NextInstanceBatch(g, batch_size))
    ELSE /\ np_random' = RandomStep(RandomStep(RandomStep(np_random)))
         /\ sea' = sea
         /\ obs' = [obs EXCEPT ![g].error = "IndexError"]

\* The generators the running scenario works with.
ActiveGens ==
    IF scenario = "sea" THEN {1} ELSE IF scenario = "sea2" THEN Gens ELSE {}

\* The constructor arguments tried: every kind when one generator is alone,
\* valid noiseless ones when two generators live in the same process.
CtorFunctions == IF scenario = "sea2" THEN {0} ELSE FunctionArgs

CtorNoises == IF scenario = "sea2" THEN {0} ELSE NoiseValues

CtorBalances == IF scenario = "sea2" THEN {FALSE} ELSE BOOLEAN

\* How many returned samples are kept for a generator between two restarts.
ProducedCap == IF scenario = "sea2" THEN MaxProduced - 1 ELSE MaxProduced

\* stream = SEAGenerator(classification_function, instance_seed,
\*                       balance_classes, noise_percentage)
ConstructEffect(g, classification_function, instance_seed, balance_classes, noise_percentage) ==
    /\ np_random' = RandomSeed(instance_seed)
    /\ sea' = [sea EXCEPT ![g] = Configured(classification_function,
                      instance_seed, balance_classes, noise_percentage)]
    /\ obs' = [obs EXCEPT ![g] = [ctor_function |-> classification_function,
                      since |-> "construct", produced |-> << >>,
                      error |-> "none"]]

SEA_Construct(g) ==
    /\ g \in ActiveGens
    /\ ~sea[g].constructed
    /\ \E f \in CtorFunctions, seed \in Seeds, balance \in CtorBalances,
          noise \in CtorNoises :
            ConstructEffect(g, f, seed, balance, noise)
    /\ UNCHANGED << scenario, pc, demoVars, sample_count, speedVars, knnVars >>

\* stream.next_instance(batch_size)
SEA_NextInstance(g) ==
    /\ g \in ActiveGens
    /\ sea[g].constructed
    /\ \E batch_size \in 1..MaxBatch :
          /\ Len(obs[g].produced) + batch_size <= ProducedCap
          /\ NextInstanceEffect(g, batch_size)
    /\ UNCHANGED << scenario, pc, demoVars, sample_count, speedVars, knnVars >>

\* stream.restart() (lines 200-202)
RestartEffect(g) ==
    /\ np_random' = RandomSeed(sea[g].instance_seed)
    /\ sea' = [sea EXCEPT ![g] = Restarted(g)]
    /\ obs' = [obs EXCEPT ![g].since = "restart", ![g].produced = << >>]

SEA_Restart(g) ==
    /\ g \in ActiveGens
    /\ sea[g].constructed
    /\ RestartEffect(g)
    /\ UNCHANGED << scenario, pc, demoVars, sample_count, speedVars, knnVars >>

\* stream.prepare_for_use() (lines 194-195) calls restart()
SEA_PrepareForUse(g) ==
    /\ g \in ActiveGens
    /\ sea[g].constructed
    /\ RestartEffect(g)
    /\ UNCHANGED << scenario, pc, demoVars, sample_count, speedVars, knnVars >>

\* stream.generate_drift() (lines 349-353)
SEA_GenerateDrift(g) ==
    /\ g \in ActiveGens
    /\ scenario = "sea"
    /\ sea[g].constructed
    /\ LET d == DrawNewFunction(np_random,
                                sea[g].classification_function_index)
       IN  /\ np_random' = d.state
           /\ sea' = [sea EXCEPT ![g].classification_function_index = d.value]
           /\ obs' = [obs EXCEPT ![g].since = "drift",
                                 ![g].produced = << >>]
    /\ UNCHANGED << scenario, pc, demoVars, sample_count, speedVars, knnVars >>

\* ------------------------------------------------------------------ demo()
\* What clf.predict(X) returns for a one-instance batch: None, written << >>,
\* or an array holding one label.
Predictions == { << >>, << 0 >>, << 1 >> }

\* The samples as the caller holds them in (X, y), each instance with its
\* position in the stream, `base` instances having come before.
Numbered(samples, base) ==
    [k \in 1..Len(samples) |->
        [i |-> base + k,
         x |-> << samples[k].att1, samples[k].att2, samples[k].att3 >>,
         y |-> samples[k].label]]

\* The batch (X, y) a next_instance call returns.
Batch(g, batch_size) ==
    Numbered(NextInstanceBatch(g, batch_size).samples, Len(obs[g].produced))

Instances(batch) == { batch[k].i : k \in 1..Len(batch) }

\* Lines 21-30: the stream is built and prepared, the locals are set.
DemoStart ==
    /\ scenario = "demo" /\ pc = "start"
    /\ np_random' = RandomSeed(42)
    /\ sea' = [sea EXCEPT ![1] = Configured(1, 42, FALSE, 670)]
    /\ obs' = [obs EXCEPT ![1] = [ctor_function |-> 1, since |-> "restart",
                                  produced |-> << >>, error |-> "none"]]
    /\ \E m \in 1..MaxSamples, t \in 0..MaxTrain :
          /\ max_samples' = m
          /\ train_size' = t
    /\ sample_count' = 0
    /\ correctly_classified' = 0
    /\ first' = TRUE
    /\ pc' = "pretrain"
    /\ UNCHANGED << scenario, Xy, my_pred, calls, performance, speedVars, knnVars >>

\* DemoPretrain counting the pretraining instances as analyzed samples
DemoPretrainCounted ==
    /\ scenario = "demo" /\ pc = "pretrain"
    /\ IF train_size > 0
       THEN /\ NextInstanceEffect(1, train_size)
            /\ Xy' = Batch(1, train_size)
            /\ calls' = Append(calls, [op |-> "partial_fit",
                             X |-> Instances(Batch(1, train_size)),
                             classes |-> TRUE, result |-> << >>])
            /\ first' = FALSE
       ELSE UNCHANGED << seaVars, Xy, calls, first >>
    /\ sample_count' = sample_count + train_size
    /\ pc' = "while"
    /\ UNCHANGED << scenario, max_samples, train_size,
                    correctly_classified, my_pred, performance, speedVars, knnVars >>

\* Lines 31-34.
DemoPretrain ==
    /\ scenario = "demo" /\ pc = "pretrain"
    /\ IF train_size > 0
       THEN /\ NextInstanceEffect(1, train_size)
            /\ Xy' = Batch(1, train_size)
            /\ calls' = Append(calls, [op |-> "partial_fit",
                             X |-> Instances(Batch(1, train_size)),
                             classes |-> TRUE, result |-> << >>])
            /\ first' = FALSE
       ELSE UNCHANGED << seaVars, Xy, calls, first >>
    /\ pc' = "while"
    /\ UNCHANGED << scenario, max_samples, train_size, sample_count,
                    correctly_classified, my_pred, performance, speedVars, knnVars >>

\* Line 36.
DemoWhile ==
    /\ scenario = "demo" /\ pc = "while"
    /\ pc' = IF sample_count < max_samples THEN "pull" ELSE "report"
    /\ UNCHANGED << scenario, seaVars, demoVars, knnVars, sample_count, speedVars, knnVars >>

\* DemoPull going on to partial_fit, the prediction left out
DemoPullThenFit ==
    /\ scenario = "demo" /\ pc = "pull"
    /\ NextInstanceEffect(1, 1)
    /\ Xy' = Batch(1, 1)
    /\ pc' = "fit"
    /\ UNCHANGED << scenario, max_samples, train_size, first, sample_count,
                    correctly_classified, my_pred, calls, performance,
                    speedVars, knnVars >>

\* Line 39.
DemoPull ==
    /\ scenario = "demo" /\ pc = "pull"
    /\ NextInstanceEffect(1, 1)
    /\ Xy' = Batch(1, 1)
    /\ pc' = "predict"
    /\ UNCHANGED << scenario, max_samples, train_size, first, sample_count,
                    correctly_classified, my_pred, calls, performance,
                    speedVars, knnVars >>

\* Line 40.
DemoPredict ==
    /\ scenario = "demo" /\ pc = "predict"
    /\ \E p \in Predictions :
          /\ my_pred' = p
          /\ calls' = Append(calls, [op |-> "predict", X |-> Instances(Xy),
                                     classes |-> FALSE, result |-> p])
    /\ pc' = "fit"
    /\ UNCHANGED << scenario, seaVars, max_samples, train_size, first,
                    sample_count, correctly_classified, Xy, performance,
                    speedVars, knnVars >>

\* DemoFit never clearing `first`
DemoFitKeepsFirst ==
    /\ scenario = "demo" /\ pc = "fit"
    /\ calls' = Append(calls, [op |-> "partial_fit", X |-> Instances(Xy),
                               classes |-> first, result |-> << >>])
    /\ pc' = "score"
    /\ UNCHANGED << scenario, seaVars, max_samples, train_size, first,
                    sample_count, correctly_classified, Xy, my_pred,
                    performance, speedVars, knnVars >>

\* Lines 42-46.
DemoFit ==
    /\ scenario = "demo" /\ pc = "fit"
    /\ calls' = Append(calls, [op |-> "partial_fit", X |-> Instances(Xy),
                               classes |-> first, result |-> << >>])
    /\ first' = FALSE
    /\ pc' = "score"
    /\ UNCHANGED << scenario, seaVars, max_samples, train_size,
                    sample_count, correctly_classified, Xy, my_pred,
                    performance, speedVars, knnVars >>

\* Lines 48-52.
DemoScore ==
    /\ scenario = "demo" /\ pc = "score"
    /\ correctly_classified' =
          IF my_pred # << >> /\ Xy[1].y = my_pred[1]
          THEN correctly_classified + 1
          ELSE correctly_classified
    /\ sample_count' = sample_count + 1
    /\ pc' = "while"
    /\ UNCHANGED << scenario, seaVars, max_samples, train_size, first, Xy,
                    my_pred, calls, performance, speedVars, knnVars >>

\* Lines 55-56: the fraction correctly_classified / sample_count is printed.
DemoReport ==
    /\ scenario = "demo" /\ pc = "report"
    /\ performance' = [analyzed |-> sample_count,
                       numerator |-> correctly_classified,
                       denominator |-> sample_count]
    /\ pc' = "done"
    /\ UNCHANGED << scenario, seaVars, max_samples, train_size, first,
                    sample_count, correctly_classified, Xy, my_pred, calls,
                    speedVars, knnVars >>

\* ------------------------------------------ EvaluateStreamGenerationSpeed
NoEvaluator == [num_samples |-> 0, max_time |-> 0, batch_size |-> 0]

NoStream == [remaining |-> 0, requested |-> 0, calls |-> 0]

\* The stream passed to eval: `remaining` is what its
\* estimated_remaining_instances() answers at lines 74-75 (-1: a generator,
\* which never runs out); `requested` and `calls` count what line 78 asks
\* of it.
PreparedStream(r) == [remaining |-> r, requested |-> 0, calls |-> 0]

\* stream.estimated_remaining_instances()
estimated_remaining_instances(s) == s.remaining

\* stream.next_instance(batch_size), seen from the caller: one more call,
\* batch_size more instances requested.
StreamNextInstance(s, batch_size) ==
    [s EXCEPT !.requested = s.requested + batch_size,
              !.calls = s.calls + 1]

\* timer() - init_time at the next read of the clock: the clock has advanced
\* by at least one tick since the last read.  Every value above the largest
\* finite max_time behaves alike, so the elapsed time is kept up to ElapsedCap.
TimerReads ==
    { IF elapsed + d > ElapsedCap THEN ElapsedCap ELSE elapsed + d :
          d \in 1..MaxTick }

\* __init__ (lines 41-46): the arguments are stored as they come.
SpeedConstruct ==
    /\ scenario = "speed" /\ pc = "start"
    /\ \E n \in -1..MaxNumSamples, t \in (0..MaxTimeBudget) \cup {inf},
          b \in 0..MaxBatch :
            ev' = [num_samples |-> n, max_time |-> t, batch_size |-> b]
    /\ pc' = "constructed"
    /\ UNCHANGED << scenario, seaVars, demoVars, knnVars, sample_count, stream,
                    stream_local_max, true_percentage_index, elapsed,
                    generated, logged >>

\* eval(stream) enters _measure_stream_speed: lines 68-75.
SpeedEval ==
    /\ scenario = "speed" /\ pc = "constructed"
    /\ \E r \in -1..MaxRemaining :
          /\ stream' = PreparedStream(r)
          /\ stream_local_max' =
                IF estimated_remaining_instances(PreparedStream(r)) = -1
                THEN inf
                ELSE estimated_remaining_instances(PreparedStream(r))
    /\ sample_count' = 0
    /\ elapsed' = 0
    /\ true_percentage_index' = 0
    /\ logged' = << >>
    /\ pc' = "outer"
    /\ UNCHANGED << scenario, seaVars, demoVars, knnVars, ev, generated >>

\* OuterCondition testing the budget before the batch is added
OuterConditionOvershoots(t) ==
    /\ t <= ev.max_time
    /\ sample_count <= ev.num_samples
    /\ sample_count + ev.batch_size <= stream_local_max

\* OuterCondition without the test of the stream's remaining instances
OuterConditionIgnoresStream(t) ==
    /\ t <= ev.max_time
    /\ sample_count + ev.batch_size <= ev.num_samples

\* The condition of the outer while (lines 76-77), t being
\* timer() - init_time.
OuterCondition(t) ==
    /\ t <= ev.max_time
    /\ sample_count + ev.batch_size <= ev.num_samples
    /\ sample_count + ev.batch_size <= stream_local_max

\* Lines 76-77: the clock is read and the condition is tested.
SpeedOuter ==
    /\ scenario = "speed" /\ pc = "outer"
    /\ \E t \in TimerReads :
          /\ elapsed' = t
          /\ pc' = IF OuterCondition(t) THEN "body" ELSE "finish"
    /\ UNCHANGED << scenario, seaVars, demoVars, knnVars, sample_count, ev, stream,
                    stream_local_max, true_percentage_index, generated,
                    logged >>

\* Lines 78-79.
SpeedBody ==
    /\ scenario = "speed" /\ pc = "body"
    /\ stream.calls < MaxCalls
    /\ stream' = StreamNextInstance(stream, ev.batch_size)
    /\ sample_count' = sample_count + ev.batch_size
    /\ pc' = "inner"
    /\ UNCHANGED << scenario, seaVars, demoVars, knnVars, ev, stream_local_max,
                    true_percentage_index, elapsed, generated, logged >>

\* InnerCondition no longer looking at true_percentage_index
InnerConditionFixedStep ==
    20 * (sample_count + ev.batch_size) >= ev.num_samples

\* The condition of the inner while (line 80):
\* sample_count + batch_size >= (true_percentage_index+1)*num_samples/20.
InnerCondition ==
    20 * (sample_count + ev.batch_size)
        >= (true_percentage_index + 1) * ev.num_samples

\* Lines 80-82: one test of the inner while, and its body when it holds.
SpeedInner ==
    /\ scenario = "speed" /\ pc = "inner"
    /\ IF InnerCondition
       THEN /\ true_percentage_index < MaxPercentageIndex
            /\ true_percentage_index' = true_percentage_index + 1
            /\ logged' = Append(logged, (true_percentage_index + 1) * 5)
            /\ pc' = "inner"
       ELSE /\ pc' = "outer"
            /\ UNCHANGED << true_percentage_index, logged >>
    /\ UNCHANGED << scenario, seaVars, demoVars, knnVars, sample_count, ev, stream,
                    stream_local_max, elapsed, generated >>

\* Lines 83-86: the clock is read and the counts are logged.
SpeedFinish ==
    /\ scenario = "speed" /\ pc = "finish"
    /\ \E t \in TimerReads : elapsed' = t
    /\ generated' = sample_count
    /\ pc' = "done"
    /\ UNCHANGED << scenario, seaVars, demoVars, knnVars, sample_count, ev, stream,
                    stream_local_max, true_percentage_index, logged >>

\* ------------------------------------------------ windowed nearest neighbour
NoLearner == [max_window_size |-> 0, window |-> << >>]

\* WindowAfterInsert evicting nothing
WindowNeverEvicts(window, capacity, entry) == Append(window, entry)

\* The buffer after one more entry: past the capacity the oldest entry, the
\* head of the buffer, is evicted.
WindowAfterInsert(window, capacity, entry) ==
    IF Len(window) >= capacity
    THEN Append(Tail(window), entry)
    ELSE Append(window, entry)

\* KNNAdwin(k, max_window_size, leaf_size): the capacity is fixed here.
KNN_Construct ==
    /\ scenario = "knn" /\ pc = "start"
    /\ \E capacity \in 1..MaxWindow :
          knn' = [max_window_size |-> capacity, window |-> << >>]
    /\ inserted' = 0
    /\ pc' = "constructed"
    /\ UNCHANGED << scenario, seaVars, demoVars, sample_count, speedVars >>

\* fit_one(instance, label): the instance, known by its rank among the
\* inserted ones, enters the buffer.
KNN_FitOne ==
    /\ scenario = "knn" /\ pc = "constructed"
    /\ inserted < MaxInserts
    /\ inserted' = inserted + 1
    /\ knn' = [knn EXCEPT !.window =
                  WindowAfterInsert(knn.window, knn.max_window_size,
                                    inserted + 1)]
    /\ UNCHANGED << scenario, pc, seaVars, demoVars, sample_count,
                    speedVars >>

\* ------------------------------------------------------------ the system
Init ==
    /\ scenario \in {"sea", "sea2", "demo", "speed", "knn"}
    /\ pc = "start"
    /\ np_random \in {0, 1}    \* np.random before any seed(): arbitrary
    /\ sea = [g \in Gens |-> NoGenerator]
    /\ obs = [g \in Gens |-> NoObservation]
    /\ max_samples = 0
    /\ train_size = 0
    /\ first = TRUE
    /\ sample_count = 0
    /\ correctly_classified = 0
    /\ Xy = << >>
    /\ my_pred = << >>
    /\ calls = << >>
    /\ performance = [analyzed |-> 0, numerator |-> 0, denominator |-> 0]
    /\ ev = NoEvaluator
    /\ stream = NoStream
    /\ stream_local_max = 0
    /\ true_percentage_index = 0
    /\ elapsed = 0
    /\ generated = -1
    /\ logged = << >>
    /\ knn = NoLearner
    /\ inserted = 0

Next ==
    \/ \E g \in Gens : SEA_Construct(g)
    \/ \E g \in Gens : SEA_NextInstance(g)
    \/ \E g \in Gens : SEA_Restart(g)
    \/ \E g \in Gens : SEA_PrepareForUse(g)
    \/ \E g \in Gens : SEA_GenerateDrift(g)
    \/ DemoStart
    \/ DemoPretrain
    \/ DemoWhile
    \/ DemoPull
    \/ DemoPredict
    \/ DemoFit
    \/ DemoScore
    \/ DemoReport
    \/ SpeedConstruct
    \/ SpeedEval
    \/ SpeedOuter
    \/ SpeedBody
    \/ SpeedInner
    \/ SpeedFinish
    \/ KNN_Construct
    \/ KNN_FitOne

Spec == Init /\ [][Next]_vars

\* _measure_stream_speed, once entered, keeps running: it is a sequential
\* function that nothing suspends.
SpeedRun == SpeedOuter \/ SpeedBody \/ SpeedInner \/ SpeedFinish

FairSpec == Spec /\ WF_vars(SpeedRun)

\* ================================================================ claims
\* Helpers of the claims.
CallsOf(op) == { j \in 1..Len(calls) : calls[j].op = op }

\* The pretraining instances of demo(): the first train_size of the stream.
PretrainInstances == 1..train_size

\* What a caller gets back for a sample: three features and a label.
Returned(samples) ==
    [k \in 1..Len(samples) |->
        << samples[k].att1, samples[k].att2, samples[k].att3,
           samples[k].label >>]

\* The first n samples a generator just built with g's constructor
\* arguments returns.
FreshSamples(g, n) ==
    GenerateBatch(n, RandomSeed(sea[g].instance_seed), FALSE,
                  obs[g].ctor_function, sea[g].balance_classes,
                  sea[g].noise_percentage).samples

\* The documented thresholds 8, 9, 7 and 9.5 of functions 0..3, in half units.
Threshold(fn) ==
    CASE fn = 0 -> 16 [] fn = 1 -> 18 [] fn = 2 -> 14 [] fn = 3 -> 19

\* ---------------------------------------------------------------- C1
\* C1: in demo(), every instance pulled inside the scoring loop is passed to
\* clf.predict strictly before it is passed to clf.partial_fit, and the
\* pretraining instances are never passed to predict.
C1_TestThenTrain ==
    scenario = "demo" =>
        /\ \A j \in CallsOf("partial_fit") :
              \A i \in calls[j].X \ PretrainInstances :
                  \E k \in CallsOf("predict") : k < j /\ i \in calls[k].X
        /\ \A k \in CallsOf("predict") :
              calls[k].X \cap PretrainInstances = {}

\* C1 witness: a finished run with pretraining in which loop instances were
\* predicted and then fitted.
C1_Witness ==
    /\ scenario = "demo" /\ pc = "done"
    /\ train_size > 0
    /\ Cardinality(CallsOf("predict")) >= 2
    /\ Cardinality(CallsOf("partial_fit")) >= 3

\* ---------------------------------------------------------------- C2
\* C2 as stated: with a sample budget M and a stream that never runs out the
\* loop processes exactly M instances, whatever max_time is.
C2_ExactlyBudget ==
    /\ (scenario = "demo" /\ pc = "done") => sample_count = max_samples
    /\ (scenario = "speed" /\ pc = "done" /\ stream.remaining = -1
            /\ ev.batch_size >= 1 /\ ev.num_samples >= 0)
          => stream.requested = ev.num_samples

\* C2 amended: with a sample budget M and a stream that never runs out the
\* loop never processes more than M instances; demo(), which has no time
\* budget, processes exactly max_samples; _measure_stream_speed processes
\* batch_size * floor(num_samples / batch_size) instances when max_time is
\* infinite, and may stop earlier when a finite max_time has elapsed.
C2_BudgetRespected ==
    /\ scenario = "demo" =>
          /\ sample_count <= max_samples
          /\ pc = "done" => sample_count = max_samples
    /\ (scenario = "speed" /\ pc # "start" /\ pc # "constructed"
            /\ stream.remaining = -1
            /\ ev.batch_size >= 1 /\ ev.num_samples >= 0)
          => /\ stream.requested <= ev.num_samples
             /\ stream.requested = sample_count
             /\ (pc = "done" /\ ev.max_time = inf) =>
                    stream.requested
                        = ev.batch_size * (ev.num_samples \div ev.batch_size)

\* C2 witness: a run on an endless stream, without time limit, that ended
\* having processed its whole budget in several batches.
C2_Witness ==
    /\ scenario = "speed" /\ pc = "done"
    /\ stream.remaining = -1 /\ ev.max_time = inf
    /\ ev.batch_size >= 1 /\ ev.num_samples >= 2
    /\ stream.calls >= 2
    /\ stream.requested = ev.num_samples

\* ---------------------------------------------------------------- C3
\* C3: in demo() with train_size > 0 the first train_size instances are
\* pulled up front and passed to partial_fit exactly once, never to predict;
\* they leave the scoring counters at 0; at the end the scored-sample
\* counter equals max_samples while the stream delivered
\* train_size + max_samples instances.
C3_PretrainIsolation ==
    (scenario = "demo" /\ pc # "start" /\ pc # "pretrain"
        /\ train_size > 0)
      => /\ calls[1].op = "partial_fit"
         /\ calls[1].X = PretrainInstances
         /\ \A j \in 2..Len(calls) :
               calls[j].X \cap PretrainInstances = {}
         /\ Len(calls) = 1 =>
               sample_count = 0 /\ correctly_classified = 0
         /\ pc = "while" =>
               sample_count = Cardinality(CallsOf("partial_fit")) - 1
         /\ pc = "done" =>
               /\ sample_count = max_samples
               /\ performance.analyzed = max_samples
               /\ Len(obs[1].produced) = train_size + max_samples

\* C3 witness: a finished run that pretrained on two instances.
C3_Witness ==
    /\ scenario = "demo" /\ pc = "done"
    /\ train_size = 2
    /\ Len(obs[1].produced) = 2 + max_samples

\* ---------------------------------------------------------------- C4
\* C4: a prediction of None counts as neither correct nor incorrect: the
\* reported performance is correct / (number of instances for which a
\* prediction was available).
C4_NoPredictionExcluded ==
    (scenario = "demo" /\ pc = "done")
      => /\ performance.denominator =
               Cardinality({ j \in CallsOf("predict") :
                               calls[j].result # << >> })
         /\ performance.numerator <= performance.denominator

\* ---------------------------------------------------------------- C5
\* C5: for every train_size >= 0 the first partial_fit call of demo()
\* carries classes, so no call comes before one that carried them, and every
\* later call omits them: exactly one call carries classes.
C5_ClassesOnFirstFit ==
    (scenario = "demo" /\ CallsOf("partial_fit") # {})
      => \E j \in CallsOf("partial_fit") :
            /\ calls[j].classes
            /\ \A k \in CallsOf("partial_fit") :
                  k # j => (k > j /\ ~calls[k].classes)

\* C5 witness: a finished run without pretraining that made several
\* partial_fit calls.
C5_Witness ==
    /\ scenario = "demo" /\ pc = "done"
    /\ train_size = 0
    /\ Cardinality(CallsOf("partial_fit")) >= 2

\* ---------------------------------------------------------------- C6
\* C6: after any next_instance and generate_drift calls, restart() (or
\* prepare_for_use()) brings the generator back to its initial generation
\* state: the samples the following next_instance calls return are those a
\* generator just built with the same constructor arguments returns.
C6_RestartEqualsFresh ==
    \A g \in Gens :
        (scenario = "sea" /\ sea[g].constructed
            /\ obs[g].ctor_function \in 0..3
            /\ obs[g].since = "restart")
          => Returned(obs[g].produced)
                = Returned(FreshSamples(g, Len(obs[g].produced)))

\* ---------------------------------------------------------------- C7
\* C7: the label chosen by the classification function is switched exactly
\* when the drawn probability is higher than noise_percentage.
C7_SwitchedWhenHigher ==
    \A g \in Gens :
        scenario = "sea" =>
            \A k \in 1..Len(obs[g].produced) :
                LET s == obs[g].produced[k]
                IN  (s.label # s.chosen)
                        <=> (5 * s.p > sea[g].noise_percentage)

\* ---------------------------------------------------------------- C8
\* C8: with noise_percentage = 0.0 and balance_classes = False every sample
\* has label 0 if att1 + att2 <= T and 1 otherwise, T being 8, 9, 7, 9.5 for
\* the function 0, 1, 2, 3 selected when the sample was generated (also
\* after generate_drift); att3 plays no part; the label is 0 or 1.
C8_LabelIsThreshold ==
    \A g \in Gens :
        (sea[g].constructed /\ sea[g].noise_percentage = 0
            /\ ~sea[g].balance_classes)
          => \A k \in 1..Len(obs[g].produced) :
                LET s == obs[g].produced[k]
                IN  s.fn \in 0..3 =>
                        /\ s.label \in {0, 1}
                        /\ s.label = IF s.att1 + s.att2 <= Threshold(s.fn)
                                      THEN 0 ELSE 1

\* C8 witness: after generate_drift selected function 3, a sample of each
\* class was returned, one of them with att1 + att2 exactly 9.5.
C8_Witness ==
    \E g \in Gens :
        /\ sea[g].constructed /\ sea[g].noise_percentage = 0
        /\ ~sea[g].balance_classes
        /\ obs[g].since = "drift"
        /\ \E k, l \in 1..Len(obs[g].produced) :
              /\ obs[g].produced[k].fn = 3
              /\ obs[g].produced[k].label = 0
              /\ obs[g].produced[l].label = 1
              /\ obs[g].produced[l].att3 < obs[g].produced[l].att2

\* ---------------------------------------------------------------- C9
\* C9: when the stream has only R >= 0 instances left at the start of eval
\* (R < num_samples), next_instance is never asked for more instances than
\* remain, the loop is left once the next batch would not fit, and the
\* 'Generated' count is the number of instances requested from the stream,
\* batch_size times the number of next_instance calls.
C9_StopsAtExhaustion ==
    (scenario = "speed" /\ pc # "start" /\ pc # "constructed"
        /\ stream.remaining >= 0 /\ stream.remaining < ev.num_samples)
      => /\ stream.requested <= stream.remaining
         /\ stream.requested = ev.batch_size * stream.calls
         /\ pc = "body" =>
               stream.requested + ev.batch_size <= stream.remaining
         /\ (pc = "finish" /\ elapsed <= ev.max_time) =>
               stream.requested + ev.batch_size > stream.remaining
         /\ pc = "done" => generated = stream.requested

\* C9 witness: a run ended by the stream running out, after at least one
\* batch, with budget left.
C9_Witness ==
    /\ scenario = "speed" /\ pc = "done"
    /\ stream.remaining >= 0 /\ stream.remaining < ev.num_samples
    /\ ev.max_time = inf
    /\ generated >= 2
    /\ generated + ev.batch_size > stream.remaining
    /\ generated + ev.batch_size <= ev.num_samples

\* ---------------------------------------------------------------- C10
\* C10: invalid construction options are rejected by the constructor: no
\* SEAGenerator exists whose classification_function argument was outside
\* 0..3, and no EvaluateStreamGenerationSpeed exists with batch_size <= 0
\* or num_samples < 0.
C10_InvalidOptionsRejected ==
    /\ \A g \in Gens :
          sea[g].constructed => obs[g].ctor_function \in 0..3
    /\ (scenario = "speed" /\ pc # "start")
          => ev.batch_size >= 1 /\ ev.num_samples >= 0

\* ---------------------------------------------------------------- C11
\* C11: after any sequence of fit_one inserts the buffer never holds more
\* than max_window_size entries; after M > max_window_size inserts it holds
\* exactly max_window_size entries, the last inserted ones in insertion
\* order, the oldest being the (M - max_window_size + 1)-th inserted.
C11_BoundedFifoWindow ==
    (scenario = "knn" /\ pc = "constructed")
      => /\ Len(knn.window) <= knn.max_window_size
         /\ inserted <= knn.max_window_size =>
               knn.window = [k \in 1..inserted |-> k]
         /\ inserted > knn.max_window_size =>
               /\ Len(knn.window) = knn.max_window_size
               /\ knn.window[1] = inserted - knn.max_window_size + 1
               /\ knn.window =
                     [k \in 1..knn.max_window_size |->
                         inserted - knn.max_window_size + k]

\* C11 witness: a buffer of capacity 2 or more that has evicted at least
\* two entries.
C11_Witness ==
    /\ scenario = "knn" /\ pc = "constructed"
    /\ knn.max_window_size >= 2
    /\ inserted >= knn.max_window_size + 2

\* ---------------------------------------------------------------- C12
\* C12: with balance_classes = True and noise_percentage = 0.0 the labels of
\* the samples returned after restart() alternate 1, 0, 1, 0, ..., starting
\* with class 1, whatever the batch sizes of the calls; so in every prefix
\* the counts of the two classes differ by at most 1.
C12_BalancedAlternation ==
    \A g \in Gens :
        (sea[g].constructed /\ sea[g].balance_classes
            /\ sea[g].noise_percentage = 0 /\ obs[g].since = "restart")
          => \A k \in 1..Len(obs[g].produced) :
                /\ obs[g].produced[k].label = k % 2
                /\ LET ones == { j \in 1..k : obs[g].produced[j].label = 1 }
                   IN  Cardinality(ones) - (k - Cardinality(ones)) \in {0, 1}

\* C12 witness: three balanced samples returned after a restart.
C12_Witness ==
    \E g \in Gens :
        /\ sea[g].constructed /\ sea[g].balance_classes
        /\ sea[g].noise_percentage = 0 /\ obs[g].since = "restart"
        /\ Len(obs[g].produced) >= 3

\* ---------------------------------------------------------------- C13
\* C13: the samples a generator returns after its own prepare_for_use() or
\* restart() depend only on its own constructor arguments and its own
\* calls: whatever is done with a second generator in the same process,
\* they are the samples a generator alone in the process returns.
C13_IndependentOfOtherGenerator ==
    \A g \in Gens :
        (scenario = "sea2" /\ sea[g].constructed
            /\ obs[g].ctor_function \in 0..3
            /\ sea[g].classification_function_index = obs[g].ctor_function
            /\ obs[g].since = "restart")
          => Returned(obs[g].produced)
                = Returned(FreshSamples(g, Len(obs[g].produced)))

\* ---------------------------------------------------------------- C14
\* A run of _measure_stream_speed with batch_size >= 1 and num_samples >= 0.
ValidSpeedRun ==
    /\ scenario = "speed"
    /\ pc \in {"outer", "body", "inner", "finish"}
    /\ ev.batch_size >= 1 /\ ev.num_samples >= 0

\* C14: _measure_stream_speed terminates for every batch_size >= 1 and
\* num_samples >= 0, also with max_time = infinity and an endless stream: a
\* batch is only started while sample_count + batch_size <= num_samples,
\* true_percentage_index stays bounded in every iteration, and between the
\* test of the budgets and the end of the batch it starts nothing else
\* stops the run.
C14_Terminates ==
    /\ ValidSpeedRun ~> (pc = "done")
    /\ [](ValidSpeedRun =>
            /\ sample_count <= ev.num_samples
            /\ pc = "body" =>
                  sample_count + ev.batch_size <= ev.num_samples
            /\ true_percentage_index * ev.num_samples
                  <= 20 * (sample_count + ev.batch_size)
            /\ true_percentage_index < MaxPercentageIndex
            /\ stream.calls < MaxCalls)
    /\ [][(ValidSpeedRun /\ pc = "body") =>
            (pc' = "inner"
                /\ sample_count' = sample_count + ev.batch_size)]_vars

\* C14 witness: a run without time limit on an endless stream that ended
\* after several batches, its whole budget generated.
C14_Witness ==
    /\ scenario = "speed" /\ pc = "done"
    /\ ev.max_time = inf /\ stream.remaining = -1
    /\ ev.batch_size >= 1 /\ ev.num_samples >= 3
    /\ stream.calls >= 3
    /\ generated = ev.num_samples
    /\ true_percentage_index >= 20

\* ---------------------------------------------------------------- C15
\* C15: for num_samples >= 1 and batch_size >= 1 the logged percentages are
\* multiples of 5, strictly increasing (so each appears once), never above
\* 100, and a percentage p is logged only when at least p% of num_samples
\* have been generated.
C15_ProgressWithinGenerated ==
    (scenario = "speed" /\ ev.num_samples >= 1 /\ ev.batch_size >= 1) =>
        /\ \A i \in 1..Len(logged) :
              /\ logged[i] % 5 = 0
              /\ logged[i] <= 100
              /\ i > 1 => logged[i - 1] < logged[i]
        /\ Len(logged) > 0 =>
              logged[Len(logged)] * ev.num_samples <= 100 * sample_count

=============================================================================
